---- MODULE Spec2Model ----
(***************************************************************************)
(* Model of Marathon.py: a pool of four worker processes runs              *)
(* process_target once per inventory device; main submits the tasks,       *)
(* collects their results in submission order and writes result.txt.       *)
(***************************************************************************)
EXTENDS Naturals, Integers, Sequences, FiniteSets, TLC

\* Number of rows in devices.csv (the inventory is read once, line 267).
NumDevices == 3

\* mp.Pool(4), line 274.
PoolSize == 4

\* The columns process_target and connect_to_device read from an inventory row.
AllFields == {"ip", "username", "password", "device_type", "hostname", "ntp_type"}

VARIABLES
    fleet,        \* the inventory file and what its devices can answer in this run
    mainpc,       \* position of main: "submit", "collect", "write", "done", "aborted"
    submitted,    \* number of tasks handed to the pool by apply_async
    result,       \* main's list `result`
    result_txt,   \* result.txt: {} while absent, {content} once written
    pc,           \* position of each device's task
    session,      \* netmiko connection of each task: "none", "open", "closed"
    enabled,      \* the session is in privileged mode
    unpriv,       \* a command was sent on the session while not in privileged mode
    vals,         \* the locals backup_result, pid, ver, cdp, npe, ntp of process_target
    exc,          \* exception that ended the task, "none" if none
    failedAt,     \* the step of process_target in which that exception was raised
    ret,          \* value returned by the task (temp_str)
    dirs,         \* hostnames whose backup directory exists
    backups,      \* the backup artifacts of this run: <<hostname, content>> pairs
    call,         \* a step function called on its own: its name and arguments
    out           \* what that call sent, raised and returned

vars == << fleet, mainpc, submitted, result, result_txt, pc, session, enabled,
           unpriv, vals, exc, failedAt, ret, dirs, backups, call, out >>

----------------------------------------------------------------------------
(* The inventory and the devices behind it *)

\* rows: len(device_list); header: the column names of devices.csv, the keys
\* of every row csv.DictReader yields; faults: the ways a device can fail a
\* call; peers: the neighbor counts, sync: the clock states it can report;
\* names: the hostname column.
Devices == 1 .. fleet.rows

FaultKinds == {"connect", "command", "file", "shape"}

\* Number of commas in the answer to 'sho ver | in IOS'.
Commas == IF "shape" \in fleet.faults THEN {0, 1, 2} ELSE {2}

\* device['hostname'] of the d-th row.
hostname(d) == fleet.names[d]

\* The answer of the d-th device to 'sh run': no two devices have the same
\* configuration.
running_config(d) == << "running-config", d >>

\* open(path, 'w') and write: the file of hostname h holds content.
WriteFile(files, h, content) == {f \in files : f[1] # h} \cup {<< h, content >>}

\* device['ntp_type'] of the d-th row: one master, the others its clients.
ntp_type(d) == IF d = 1 THEN "server" ELSE "client"

\* device[f] raises KeyError when the column f is not in the file's header.
HasKey(f) == f \in fleet.header

----------------------------------------------------------------------------
(* Sessions: the commands each step sends, in order *)

\* Names that are not commands sent over the session.
NotACommand == {"enable", "time.sleep"}

\* The `except Error:` clauses name an exception class that is defined
\* nowhere in the module, so evaluating the clause raises NameError.
ErrorIsDefined == FALSE

\* create_backup without its connection.enable() call.
create_backup_ops_no_enable == << "sh run" >>

create_backup_ops == << "enable", "sh run" >>

Check_dev_pid_ops == << "enable", "sho ver | in IOS" >>

Check_ver_ops == << "enable", "sho ver | in IOS" >>

Check_NPE_ops == << "enable", "sho ver | in IOS" >>

\* check_cdp that sends 'cdp run' whatever the first query answers.
check_cdp_ops_always_cdp_run(disabled) ==
    << "enable", "sho run | in no cdp run", "cdp run", "sho cdp neigh" >>

\* disabled: the answer to the first query contains 'no cdp run'.
check_cdp_ops(disabled) ==
    IF disabled
    THEN << "enable", "sho run | in no cdp run", "cdp run", "sho cdp neigh" >>
    ELSE << "enable", "sho run | in no cdp run", "sho cdp neigh" >>

\* config_ntp that asks for the status before it sleeps.
config_ntp_ops_query_before_sleep(type) ==
    << "enable", "clock timezone GMT 0" >>
    \o (IF type = "server" THEN << "ntp master" >>
        ELSE IF type = "client" THEN << "ntp server 192.168.194.101" >>
        ELSE << >>)
    \o << "sho ntp status", "time.sleep" >>

config_ntp_ops(type) ==
    << "enable", "clock timezone GMT 0" >>
    \o (IF type = "server" THEN << "ntp master" >>
        ELSE IF type = "client" THEN << "ntp server 192.168.194.101" >>
        ELSE << >>)
    \o << "time.sleep", "sho ntp status" >>

\* A call of a step sends ops; failAt = 0 when every call on the connection
\* returns, failAt = k when the k-th one raises.
Issued(ops, failAt) == IF failAt = 0 THEN ops ELSE SubSeq(ops, 1, failAt)

Returned(ops, failAt) == IF failAt = 0 THEN ops ELSE SubSeq(ops, 1, failAt - 1)

\* The places where a call on the connection can raise.
FailPoints(ops) ==
    {0} \cup {k \in 1 .. Len(ops) : "command" \in fleet.faults /\ ops[k] # "time.sleep"}

\* Privileged mode after the call: connection.enable() that returned keeps
\* the session privileged from then on.
EnabledAfter(en, ops, failAt) ==
    en \/ \E i \in 1 .. Len(Returned(ops, failAt)) : ops[i] = "enable"

\* Some command of the call went out before the session was privileged.
SentUnprivileged(en, ops, failAt) ==
    \E i \in 1 .. Len(Issued(ops, failAt)) :
        /\ ops[i] \notin NotACommand
        /\ ~ en
        /\ ~ \E j \in 1 .. (i - 1) : ops[j] = "enable"

----------------------------------------------------------------------------
(* Text: a str is a sequence of atoms; an atom is a word, a character or   *)
(* one of the separators the code splits on.                               *)

\* Largest number of lines after the column header of a neighbor table.
MaxLines == 2

\* Largest number of characters of a version banner.
MaxBanner == 3

\* str.split(sep) for a one-atom separator: the pieces between the
\* separators, empty pieces included.
RECURSIVE Split(_, _)
Split(s, sep) ==
    IF \A i \in 1 .. Len(s) : s[i] # sep
    THEN << s >>
    ELSE LET k == CHOOSE i \in 1 .. Len(s) :
                      s[i] = sep /\ \A j \in 1 .. (i - 1) : s[j] # sep
         IN << SubSeq(s, 1, k - 1) >> \o Split(SubSeq(s, k + 1, Len(s)), sep)

Whitespace == {" ", "\n"}

IsSpace(a) == a \in Whitespace

\* str.split() without argument: the words between runs of whitespace.
RECURSIVE SplitWs(_)
SplitWs(s) ==
    IF s = << >> THEN << >>
    ELSE IF IsSpace(s[1]) THEN SplitWs(Tail(s))
    ELSE LET rest == SplitWs(Tail(s)) IN
         IF Len(s) > 1 /\ ~ IsSpace(s[2])
         THEN << s[1] \o rest[1] >> \o Tail(rest)
         ELSE << s[1] >> \o rest

\* The str a sequence of atoms spells.
RECURSIVE Concat(_)
Concat(s) == IF s = << >> THEN "" ELSE s[1] \o Concat(Tail(s))

\* str.replace(a, ''): every atom a removed.
Without(s, a) == SelectSeq(s, LAMBDA x : x # a)

\* `sub in s`: sub occurs in s as a contiguous piece.
Contains(sub, s) ==
    \E i \in 0 .. (Len(s) - Len(sub)) : SubSeq(s, i + 1, i + Len(sub)) = sub

----------------------------------------------------------------------------
(* parse_cdp_nei, lines 149-164 *)

\* dict.setdefault(k, v) in place of update: the first entry of a key stays.
DictUpdate_keep_first(dict, k, v) ==
    IF \E p \in dict : p[1] = k THEN dict ELSE dict \cup {<< k, v >>}

\* dict.update({k: v}) on a dict held as a set of <<key, value>> pairs.
DictUpdate(dict, k, v) == {p \in dict : p[1] # k} \cup {<< k, v >>}

\* parse_cdp_nei without the loop of lines 157-158.
NonEmptyLines_keep_empty(lines) == lines

\* Lines 157-158: every '' is removed from the list.
NonEmptyLines(lines) == SelectSeq(lines, LAMBDA l : l # << >>)

\* Line 162 for one neighbor line: the indexes [1], [2], [-2], [-1] need
\* three words.
RECURSIVE UpdateAll(_, _, _)
UpdateAll(dict, device_name, neighbors) ==
    IF neighbors = << >> THEN [err |-> "none", dict |-> dict]
    ELSE LET f == SplitWs(neighbors[1]) IN
         IF Len(f) < 3 THEN [err |-> "IndexError", dict |-> {}]
         ELSE UpdateAll(DictUpdate(dict, << device_name, f[2] \o f[3] >>,
                                   << f[1], f[Len(f) - 1] \o f[Len(f)] >>),
                        device_name, Tail(neighbors))

parse_cdp_nei(cdp_nei_output) ==
    LET device_name == Concat(Without(Split(cdp_nei_output, ">")[1], "\n"))
        parts == Split(cdp_nei_output, "Port ID")
    IN IF Len(parts) < 2 THEN [err |-> "IndexError", dict |-> {}]
       ELSE UpdateAll({}, device_name, NonEmptyLines(Split(parts[2], "\n")))

----------------------------------------------------------------------------
(* Results of the steps *)

\* check_cdp, lines 138-142: n is len(parse_cdp_nei(output)).
check_cdp_result(n) ==
    IF n # 0 THEN "CDP is on, " \o ToString(n) \o " peers" ELSE "CDP is off"

\* config_ntp, lines 176-184.
config_ntp_result(sync) == IF sync THEN "Clock in Sync" ELSE "Clock not in Sync"

\* Check_NPE, line 195: `'k9' or 'K9' in output` is the non-empty string 'k9'.
Check_NPE_result(hasK9) == IF TRUE \/ hasK9 THEN "PE" ELSE "NPE"

\* How a step function ends: ok means its try body ran to its return; the
\* body raising leads to `except Error:`, which returns False when Error is
\* a class and raises NameError as it is not.
StepReturn(ok, value) ==
    IF ok THEN [exc |-> "none", value |-> value]
    ELSE IF ErrorIsDefined THEN [exc |-> "none", value |-> "False"]
    ELSE [exc |-> "NameError", value |-> "none"]

\* check_cdp, lines 120-147: status is the answer to the first query,
\* text the answer to 'sho cdp neigh'.
CdpDisabled(status) == Contains(<< "no cdp run" >>, status)

check_cdp(status, failAt, text) ==
    LET parsed == parse_cdp_nei(text)
        r == StepReturn(failAt = 0 /\ parsed.err = "none",
                        check_cdp_result(Cardinality(parsed.dict)))
    IN [issued |-> Issued(check_cdp_ops(CdpDisabled(status)), failAt),
        exc |-> r.exc, value |-> r.value]

\* config_ntp, lines 166-189: status is the answer to 'sho ntp status'.
ClockIsSynchronized == << "Clock", " ", "is", " ", "synchronized" >>

config_ntp(type, failAt, status) ==
    LET r == StepReturn(failAt = 0,
                        config_ntp_result(Contains(ClockIsSynchronized, status)))
    IN [issued |-> Issued(config_ntp_ops(type), failAt),
        exc |-> r.exc, value |-> r.value]

\* Check_NPE, lines 191-207: output is the answer to 'sho ver | in IOS',
\* one atom per character.
Check_NPE(output, failAt) ==
    LET r == StepReturn(failAt = 0, Check_NPE_result(Contains(<< "K", "9" >>, output)))
    IN [issued |-> Issued(Check_NPE_ops, failAt), exc |-> r.exc, value |-> r.value]

NoVals == [backup |-> "unset", pid |-> "unset", ver |-> "unset",
           cdp |-> "unset", npe |-> "unset", ntp |-> "unset"]

\* temp_str, line 252: str + bool raises TypeError ("False" stands for the
\* value False a step returns from its except clause).
CanFormat(v) == \A f \in {"pid", "ver", "npe", "cdp", "ntp"} : v[f] # "False"

temp_str(d, v) == << hostname(d), v.pid, v.ver, v.npe, v.cdp, v.ntp >>

----------------------------------------------------------------------------
(* What the devices answer *)

\* A line of the neighbor table: the words meant, and the text that spells
\* them.
NeighborLines ==
    { [fields |-> << "R2", "Gig", "0/1", "S", "Gig", "0/2" >>,
       flat |-> << "R2", " ", "Gig", " ", "0/1", " ", "S", " ", "Gig", " ", "0/2" >>],
      [fields |-> << "R3", "Gig", "0/1", "Gig", "0/3" >>,
       flat |-> << " ", "R3", " ", " ", "Gig", " ", "0/1", " ", "Gig", " ", "0/3", " " >>],
      [fields |-> << "R4", "Fas", "0/0" >>,
       flat |-> << "R4", " ", "Fas", " ", "0/0" >>],
      [fields |-> << "R5", "Gig" >>,
       flat |-> << "R5", " ", "Gig" >>],
      [fields |-> << >>, flat |-> << " " >>],
      [fields |-> << >>, flat |-> << >>] }

\* The sequences over S of length at most n.
SeqUpTo(S, n) == UNION {[1 .. k -> S] : k \in 0 .. n}

\* The answer to 'sho cdp neigh': the device name with or without the
\* prompt marker, the column header with or without 'Port ID', and one
\* line of text per table line.
RECURSIVE JoinLines(_)
JoinLines(lines) ==
    IF lines = << >> THEN << >> ELSE << "\n" >> \o lines[1].flat \o JoinLines(Tail(lines))

CdpOutput(prompt, marker, lines) ==
    << "R1" >> \o (IF prompt THEN << ">" >> ELSE << >>)
    \o << "\n", "Device ID", " " >>
    \o (IF marker THEN << "Port ID" >> ELSE << "Port" >>)
    \o JoinLines(lines)

\* A well-formed table of n neighbors.
NeighborLine(i) ==
    [fields |-> << "R" \o ToString(i + 1), "Gig", "0/" \o ToString(i), "Gig", "0/0" >>,
     flat |-> << "R" \o ToString(i + 1), " ", "Gig", " ", "0/" \o ToString(i),
                 " ", "Gig", " ", "0/0" >>]

NeighborTable(n) == CdpOutput(TRUE, TRUE, [i \in 1 .. n |-> NeighborLine(i)])

\* The answer to 'sho run | in no cdp run'.
CdpStatus(disabled) == IF disabled THEN << "no cdp run" >> ELSE << >>

\* The answer to 'sho ntp status': hasPhrase says whether the literal phrase
\* is in it.
NtpStatusTexts ==
    { [hasPhrase |-> TRUE, flat |-> ClockIsSynchronized],
      [hasPhrase |-> TRUE,
       flat |-> << "\n" >> \o ClockIsSynchronized \o << ",", " ", "stratum", " ", "8" >>],
      [hasPhrase |-> FALSE,
       flat |-> << "Clock", " ", "is", " ", "unsynchronized", ",", " ", "stratum", " ", "16" >>],
      [hasPhrase |-> FALSE, flat |-> << "clock", " ", "is", " ", "synchronized" >>],
      [hasPhrase |-> FALSE, flat |-> << "Clock", " ", "synchronized", " ", "is" >>],
      [hasPhrase |-> FALSE, flat |-> << "%NTP", " ", "is", " ", "not", " ", "enabled." >>],
      [hasPhrase |-> FALSE, flat |-> << >>] }

NtpStatus(sync) ==
    IF sync THEN ClockIsSynchronized
    ELSE << "Clock", " ", "is", " ", "unsynchronized" >>

\* The answer to 'sho ver | in IOS', one atom per character.
Banners == SeqUpTo({"k", "K", "9", "x"}, MaxBanner)

Banner(hasK9) == IF hasK9 THEN << "x", "K", "9" >> ELSE << "x" >>

----------------------------------------------------------------------------
(* process_target: the order of its steps *)

StepOrder == << "connect", "path", "mkdir", "backup", "pid", "ver", "cdp", "npe", "ntp", "disconnect" >>

Steps == {StepOrder[i] : i \in 1 .. Len(StepOrder)}

StepIndex(s) == CHOOSE i \in 1 .. Len(StepOrder) : StepOrder[i] = s

\* process_target with the calls of check_cdp and Check_NPE exchanged.
NextStep_npe_first(s) ==
    CASE s = "ver" -> "npe"
      [] s = "npe" -> "cdp"
      [] s = "cdp" -> "ntp"
      [] OTHER -> StepOrder[StepIndex(s) + 1]

\* The step that follows s when s returns.
NextStep(s) == StepOrder[StepIndex(s) + 1]

Running(d) == pc[d] \in Steps

NumRunning == Cardinality({d \in Devices : Running(d)})

\* A get() that does not wait for the task to end.
Ready_no_wait(d) == pc[d] # "queued"

\* AsyncResult.get() returns or raises once the task has ended.
Ready(d) == pc[d] \in {"returned", "raised"}

----------------------------------------------------------------------------
(* Initial state: main has read the inventory, nothing is submitted yet *)

Start0 ==
    /\ mainpc = "submit"
    /\ submitted = 0
    /\ result = << >>
    /\ result_txt = {}
    /\ pc = [d \in Devices |-> "queued"]
    /\ session = [d \in Devices |-> "none"]
    /\ enabled = [d \in Devices |-> FALSE]
    /\ unpriv = [d \in Devices |-> FALSE]
    /\ vals = [d \in Devices |-> NoVals]
    /\ exc = [d \in Devices |-> "none"]
    /\ failedAt = [d \in Devices |-> "none"]
    /\ ret = [d \in Devices |-> << >>]
    /\ dirs = {}
    /\ backups = {}
    /\ out = [runs |-> 0]

\* Any inventory of NumDevices rows that has all columns or lacks one; its
\* devices can fail every call, each has one neighbor and a hostname of
\* its own.
Init ==
    /\ fleet \in [rows : {NumDevices},
                  names : {[d \in 1 .. NumDevices |-> d]},
                  header : {AllFields} \cup {AllFields \ {f} : f \in AllFields},
                  faults : {FaultKinds},
                  peers : {{1}},
                  sync : {BOOLEAN}]
    /\ call = [fn |-> "main"]
    /\ Start0

\* An inventory with every column and one row more than the pool has
\* workers; its devices are unreachable or answer every command.
InitPool ==
    /\ fleet = [rows |-> PoolSize + 1, names |-> [d \in 1 .. (PoolSize + 1) |-> d],
                header |-> AllFields, faults |-> {"connect"},
                peers |-> {1}, sync |-> {TRUE}]
    /\ call = [fn |-> "main"]
    /\ Start0

\* An inventory of two rows with the same hostname and every column; the
\* devices can fail every call.
InitDup ==
    /\ fleet \in [rows : {2}, names : {[d \in 1 .. 2 |-> 1]},
                  header : {AllFields}, faults : {FaultKinds},
                  peers : {{1}}, sync : {BOOLEAN}]
    /\ call = [fn |-> "main"]
    /\ Start0

----------------------------------------------------------------------------
(* Building blocks of the steps *)

\* The task ends with exception e raised in its current step.
Raise(d, e) ==
    /\ pc' = [pc EXCEPT ![d] = "raised"]
    /\ exc' = [exc EXCEPT ![d] = e]
    /\ failedAt' = [failedAt EXCEPT ![d] = pc[d]]

\* The current step returns and the next one starts.
Advance(d) ==
    /\ pc' = [pc EXCEPT ![d] = NextStep(pc[d])]
    /\ UNCHANGED << exc, failedAt >>

\* The calls of one step on the connection.
UseSession(d, ops, failAt) ==
    /\ enabled' = [enabled EXCEPT ![d] = EnabledAfter(enabled[d], ops, failAt)]
    /\ unpriv' = [unpriv EXCEPT ![d] =
                      unpriv[d] \/ SentUnprivileged(enabled[d], ops, failAt)]

\* End of a step function: ok means its try body ran to its return and the
\* step returns value; otherwise control reaches `except Error:`.
Finish(d, field, r) ==
    IF r.exc = "none"
    THEN /\ vals' = [vals EXCEPT ![d][field] = r.value]
         /\ Advance(d)
    ELSE /\ vals' = vals
         /\ Raise(d, r.exc)

EndStep(d, field, ok, value) == Finish(d, field, StepReturn(ok, value))

----------------------------------------------------------------------------
(* The worker processes: process_target *)

\* A worker of the pool takes the oldest task of the queue.
Start(d) ==
    /\ mainpc \in {"submit", "collect"}
    /\ d <= submitted
    /\ pc[d] = "queued"
    /\ \A e \in Devices : e < d => pc[e] # "queued"
    /\ NumRunning < PoolSize
    /\ pc' = [pc EXCEPT ![d] = "connect"]
    /\ UNCHANGED << call, out, fleet, mainpc, submitted, result, result_txt, session, enabled,
                    unpriv, vals, exc, failedAt, ret, dirs, backups >>

\* Line 240, connect_to_device.
Connect(d) ==
    /\ pc[d] = "connect"
    /\ IF ~ ({"ip", "username", "password", "device_type"} \subseteq fleet.header)
       THEN /\ Raise(d, "KeyError")
            /\ UNCHANGED session
       ELSE \E opened \in {TRUE} \cup {FALSE : x \in fleet.faults \cap {"connect"}} :
                IF opened
                THEN /\ session' = [session EXCEPT ![d] = "open"]
                     /\ Advance(d)
                ELSE /\ Raise(d, "ConnectError")
                     /\ UNCHANGED session
    /\ UNCHANGED << call, out, fleet, mainpc, submitted, result, result_txt, enabled,
                    unpriv, vals, ret, dirs, backups >>

\* Line 242, get_backup_file_path up to line 84: os.path.exists on the
\* directory of the hostname.
BackupPath(d) ==
    /\ pc[d] = "path"
    /\ IF ~ HasKey("hostname")
       THEN Raise(d, "KeyError")
       ELSE /\ pc' = [pc EXCEPT ![d] = IF hostname(d) \in dirs THEN "backup" ELSE "mkdir"]
            /\ UNCHANGED << exc, failedAt >>
    /\ UNCHANGED << call, out, fleet, mainpc, submitted, result, result_txt, session, enabled,
                    unpriv, vals, ret, dirs, backups >>

\* Line 85, os.mkdir: FileExistsError when the directory exists by now. The
\* call is in no try block.
MakeDir(d) ==
    /\ pc[d] = "mkdir"
    /\ IF hostname(d) \in dirs
       THEN /\ Raise(d, "FileExistsError")
            /\ UNCHANGED dirs
       ELSE /\ dirs' = dirs \cup {hostname(d)}
            /\ Advance(d)
    /\ UNCHANGED << call, out, fleet, mainpc, submitted, result, result_txt, session, enabled,
                    unpriv, vals, ret, backups >>

\* Line 243, create_backup.
Backup(d) ==
    /\ pc[d] = "backup"
    /\ \E failAt \in FailPoints(create_backup_ops),
          written \in {TRUE} \cup {FALSE : x \in fleet.faults \cap {"file"}} :
           /\ UseSession(d, create_backup_ops, failAt)
           /\ backups' = IF failAt = 0 /\ written
                         THEN WriteFile(backups, hostname(d), running_config(d))
                         ELSE backups
           /\ EndStep(d, "backup", failAt = 0 /\ written, "True")
    /\ UNCHANGED << call, out, fleet, mainpc, submitted, result, result_txt, session,
                    ret, dirs >>

\* Line 244, Check_dev_pid: the banner needs one comma.
CheckPid(d) ==
    /\ pc[d] = "pid"
    /\ \E failAt \in FailPoints(Check_dev_pid_ops), commas \in Commas :
           /\ UseSession(d, Check_dev_pid_ops, failAt)
           /\ EndStep(d, "pid", failAt = 0 /\ commas >= 1, "PID")
    /\ UNCHANGED << call, out, fleet, mainpc, submitted, result, result_txt, session,
                    ret, dirs, backups >>

\* Line 245, Check_ver: the banner needs two commas.
CheckVer(d) ==
    /\ pc[d] = "ver"
    /\ \E failAt \in FailPoints(Check_ver_ops), commas \in Commas :
           /\ UseSession(d, Check_ver_ops, failAt)
           /\ EndStep(d, "ver", failAt = 0 /\ commas >= 2, "VER")
    /\ UNCHANGED << call, out, fleet, mainpc, submitted, result, result_txt, session,
                    ret, dirs, backups >>

\* Line 246, check_cdp: the device answers a table of n neighbors, or text
\* without the 'Port ID' column.
CheckCdp(d) ==
    /\ pc[d] = "cdp"
    /\ \E disabled \in BOOLEAN, n \in fleet.peers,
          wellFormed \in {TRUE} \cup {FALSE : x \in fleet.faults \cap {"shape"}} :
         \E failAt \in FailPoints(check_cdp_ops(disabled)) :
           /\ UseSession(d, check_cdp_ops(disabled), failAt)
           /\ Finish(d, "cdp",
                     check_cdp(CdpStatus(disabled), failAt,
                               IF wellFormed THEN NeighborTable(n)
                               ELSE CdpOutput(TRUE, FALSE, << >>)))
    /\ UNCHANGED << call, out, fleet, mainpc, submitted, result, result_txt, session,
                    ret, dirs, backups >>

\* Line 247, Check_NPE.
CheckNpe(d) ==
    /\ pc[d] = "npe"
    /\ \E failAt \in FailPoints(Check_NPE_ops), hasK9 \in BOOLEAN :
           /\ UseSession(d, Check_NPE_ops, failAt)
           /\ Finish(d, "npe", Check_NPE(Banner(hasK9), failAt))
    /\ UNCHANGED << call, out, fleet, mainpc, submitted, result, result_txt, session,
                    ret, dirs, backups >>

\* Line 248, config_ntp; device['ntp_type'] is read before the call.
ConfigNtp(d) ==
    /\ pc[d] = "ntp"
    /\ IF ~ HasKey("ntp_type")
       THEN /\ Raise(d, "KeyError")
            /\ UNCHANGED << enabled, unpriv, vals >>
       ELSE \E failAt \in FailPoints(config_ntp_ops(ntp_type(d))), sync \in fleet.sync :
                /\ UseSession(d, config_ntp_ops(ntp_type(d)), failAt)
                /\ Finish(d, "ntp", config_ntp(ntp_type(d), failAt, NtpStatus(sync)))
    /\ UNCHANGED << call, out, fleet, mainpc, submitted, result, result_txt, session,
                    ret, dirs, backups >>

\* Lines 250-255: disconnect_from_device, then the summary record is built
\* and returned.
Disconnect(d) ==
    /\ pc[d] = "disconnect"
    /\ session' = [session EXCEPT ![d] = "closed"]
    /\ IF CanFormat(vals[d])
       THEN /\ ret' = [ret EXCEPT ![d] = temp_str(d, vals[d])]
            /\ pc' = [pc EXCEPT ![d] = "returned"]
            /\ UNCHANGED << exc, failedAt >>
       ELSE /\ Raise(d, "TypeError")
            /\ UNCHANGED ret
    /\ UNCHANGED << call, out, fleet, mainpc, submitted, result, result_txt, enabled,
                    unpriv, vals, dirs, backups >>

----------------------------------------------------------------------------
(* main *)

\* Lines 276-277: pool.apply_async for the next device of device_list.
Submit ==
    /\ mainpc = "submit"
    /\ submitted' = submitted + 1
    /\ mainpc' = IF submitted + 1 = fleet.rows THEN "collect" ELSE "submit"
    /\ UNCHANGED << call, out, fleet, result, result_txt, pc, session, enabled, unpriv,
                    vals, exc, failedAt, ret, dirs, backups >>

\* Pool.terminate(): the worker processes are killed where they are.
Terminated == [d \in Devices |-> IF Running(d) THEN "killed" ELSE pc[d]]

\* get() of the tasks in the opposite order.
NextToCollect_last_first == fleet.rows - Len(result)

\* Line 279, `for process in processes`: the task main waits for next.
NextToCollect == Len(result) + 1

\* Lines 279-280: process.get() of the next task, in submission order. It
\* returns the task's value, or raises the task's exception in main: the
\* with block is left, which terminates the pool, and main ends there.
Collect ==
    /\ mainpc = "collect"
    /\ LET d == NextToCollect
           last == Len(result) + 1 = fleet.rows
       IN
         /\ Ready(d)
         /\ IF pc[d] = "raised"
            THEN /\ mainpc' = "aborted"
                 /\ pc' = Terminated
                 /\ UNCHANGED result
            ELSE /\ result' = Append(result, ret[d])
                 /\ mainpc' = IF last THEN "write" ELSE "collect"
                 /\ pc' = IF last THEN Terminated ELSE pc
    /\ UNCHANGED << call, out, fleet, submitted, result_txt, session, enabled, unpriv,
                    vals, exc, failedAt, ret, dirs, backups >>

\* Lines 282-284: result.txt is written.
WriteResult ==
    /\ mainpc = "write"
    /\ result_txt' = {result}
    /\ mainpc' = "done"
    /\ UNCHANGED << call, out, fleet, submitted, result, pc, session, enabled, unpriv,
                    vals, exc, failedAt, ret, dirs, backups >>

----------------------------------------------------------------------------

Next ==
    \/ Submit
    \/ Collect
    \/ WriteResult
    \/ \E d \in Devices : Start(d)
    \/ \E d \in Devices : Connect(d)
    \/ \E d \in Devices : BackupPath(d)
    \/ \E d \in Devices : MakeDir(d)
    \/ \E d \in Devices : Backup(d)
    \/ \E d \in Devices : CheckPid(d)
    \/ \E d \in Devices : CheckVer(d)
    \/ \E d \in Devices : CheckCdp(d)
    \/ \E d \in Devices : CheckNpe(d)
    \/ \E d \in Devices : ConfigNtp(d)
    \/ \E d \in Devices : Disconnect(d)

Spec == Init /\ [][Next]_vars

SpecPool == InitPool /\ [][Next]_vars

SpecDup == InitDup /\ [][Next]_vars

----------------------------------------------------------------------------
(* The step functions called on their own, on every answer of the bounded  *)
(* sets above                                                              *)

Calls ==
    [fn : {"parse_cdp_nei"}, prompt : BOOLEAN, marker : BOOLEAN,
     lines : SeqUpTo(NeighborLines, MaxLines)]
    \cup
    { c \in [fn : {"check_cdp"}, disabled : BOOLEAN, failAt : 0 .. 4, marker : BOOLEAN,
             lines : SeqUpTo(NeighborLines, MaxLines)] :
          c.failAt <= Len(check_cdp_ops(c.disabled)) }
    \cup
    { c \in [fn : {"config_ntp"}, type : {"server", "client", "other"}, failAt : 0 .. 5,
             status : NtpStatusTexts] :
          c.failAt \in {0} \cup {k \in 1 .. Len(config_ntp_ops(c.type)) :
                                    config_ntp_ops(c.type)[k] # "time.sleep"} }
    \cup
    [fn : {"Check_NPE"}, failAt : 0 .. 2, output : Banners]

\* No inventory: main does nothing, one call is made.
InitUnit ==
    /\ fleet = [rows |-> 0, names |-> << >>, header |-> AllFields,
                faults |-> FaultKinds, peers |-> {}, sync |-> {}]
    /\ call \in Calls
    /\ Start0

pipeline == << fleet, mainpc, submitted, result, result_txt, pc, session, enabled,
              unpriv, vals, exc, failedAt, ret, dirs, backups >>

\* parse_cdp_nei(text), called once and then once more on the same text.
CallParse ==
    /\ call.fn = "parse_cdp_nei"
    /\ out.runs < 2
    /\ LET parsed == parse_cdp_nei(CdpOutput(call.prompt, call.marker, call.lines)) IN
         out' = [runs |-> out.runs + 1, issued |-> << >>, exc |-> parsed.err,
                 value |-> "none", dict |-> parsed.dict,
                 before |-> IF out.runs = 0 THEN parsed ELSE [err |-> out.exc, dict |-> out.dict]]
    /\ UNCHANGED << call, pipeline >>

CallCheckCdp ==
    /\ call.fn = "check_cdp"
    /\ out.runs = 0
    /\ LET text == CdpOutput(TRUE, call.marker, call.lines)
           r == check_cdp(CdpStatus(call.disabled), call.failAt, text)
       IN out' = [runs |-> 1, issued |-> r.issued, exc |-> r.exc, value |-> r.value,
                  dict |-> parse_cdp_nei(text).dict]
    /\ UNCHANGED << call, pipeline >>

CallConfigNtp ==
    /\ call.fn = "config_ntp"
    /\ out.runs = 0
    /\ LET r == config_ntp(call.type, call.failAt, call.status.flat) IN
         out' = [runs |-> 1, issued |-> r.issued, exc |-> r.exc, value |-> r.value]
    /\ UNCHANGED << call, pipeline >>

CallCheckNpe ==
    /\ call.fn = "Check_NPE"
    /\ out.runs = 0
    /\ LET r == Check_NPE(call.output, call.failAt) IN
         out' = [runs |-> 1, issued |-> r.issued, exc |-> r.exc, value |-> r.value]
    /\ UNCHANGED << call, pipeline >>

NextUnit ==
    \/ CallParse
    \/ CallCheckCdp
    \/ CallConfigNtp
    \/ CallCheckNpe

SpecUnit == InitUnit /\ [][NextUnit]_vars

----------------------------------------------------------------------------
(* Properties *)

\* main has ended: result.txt is written, or an exception left main.
Finished == mainpc \in {"done", "aborted"}

\* The positions of main's list that hold a record of device d.
RecordsOf(d) == {i \in 1 .. Len(result) : result[i][1] = hostname(d)}

\* The steps that have a try/except of their own.
GuardedSteps == {"backup", "pid", "ver", "cdp", "npe", "ntp"}

\* An exception left one of the step functions of device d.
StepFailed(d) == pc[d] = "raised" /\ exc[d] = "NameError" /\ failedAt[d] \in GuardedSteps

\* C1: with a complete inventory and whatever commands fail inside the steps,
\* the run ends with exactly one summary record per device in main's list.
C1_OneRecordPerDevice ==
    ( /\ Finished
      /\ fleet.header = AllFields
      /\ \A d \in Devices : exc[d] \in {"none", "NameError"} )
    => /\ Len(result) = fleet.rows
       /\ \A d \in Devices : Cardinality(RecordsOf(d)) = 1

\* C2: when a run over a complete inventory has ended, every device whose own pipeline raised nothing
\* has run to its return and its result is in main's list, whatever happened
\* to the other devices.
C2_FailureIsolation ==
    (Finished /\ fleet.header = AllFields) =>
        \A d \in Devices :
            exc[d] = "none" =>
                /\ pc[d] = "returned"
                /\ \E i \in 1 .. Len(result) : result[i] = ret[d]

\* C3: a device whose connect step failed ran none of the later steps and
\* has, when a run over a complete inventory has ended, exactly one record,
\* with its fields empty;
\* and the devices that returned have theirs.
C3_ConnectFailedRecord ==
    (Finished /\ fleet.header = AllFields) =>
        \A d \in Devices :
            /\ (pc[d] = "raised" /\ failedAt[d] = "connect") =>
                   /\ vals[d] = NoVals
                   /\ Cardinality(RecordsOf(d)) = 1
                   /\ \A i \in RecordsOf(d) : \A k \in 2 .. 6 : result[i][k] = ""
            /\ pc[d] = "returned" => Cardinality(RecordsOf(d)) = 1

\* C4: when a run over a complete inventory has ended no session is open:
\* every session that was opened has been disconnected.
C4_NoSessionLeak ==
    (Finished /\ fleet.header = AllFields) => \A d \in Devices : session[d] # "open"

\* C5: no exception leaves a step function: a failing command inside Backup,
\* PlatformID, Version, LicensingTier, TopologyCheck or TimeSyncCheck never
\* ends the device's task.
C5_StepFailureTolerated == \A d \in Devices : ~ StepFailed(d)

\* C6: at most four pipelines run at any time, and when the run has ended
\* the pipeline of every inventory device has been started.
C6_BoundedParallelism ==
    /\ NumRunning <= 4
    /\ Finished => \A d \in Devices : pc[d] # "queued"

\* The part of C6 the pool does keep: never more than four running tasks.
AtMostPoolSizeRunning == NumRunning <= PoolSize

\* The pool is saturated: four tasks run while a fifth waits in the queue.
PoolSaturated == NumRunning = PoolSize /\ \E d \in Devices : pc[d] = "queued"

\* The stage of section 4.3 a position of process_target belongs to, with
\* LicensingTier as stage 5 and TopologyCheck as stage 6.
StageAsSpecified(s) ==
    CASE s = "connect" -> 1
      [] s \in {"path", "mkdir", "backup"} -> 2
      [] s = "pid" -> 3
      [] s = "ver" -> 4
      [] s = "npe" -> 5
      [] s = "cdp" -> 6
      [] s = "ntp" -> 7
      [] s = "disconnect" -> 8

\* The same with TopologyCheck as stage 5 and LicensingTier as stage 6.
StageAsCoded(s) ==
    CASE s = "connect" -> 1
      [] s \in {"path", "mkdir", "backup"} -> 2
      [] s = "pid" -> 3
      [] s = "ver" -> 4
      [] s = "cdp" -> 5
      [] s = "npe" -> 6
      [] s = "ntp" -> 7
      [] s = "disconnect" -> 8

\* C7 as stated: a pipeline moves from a stage only to the same or the next
\* one in the order Connect, Backup, PlatformID, Version, LicensingTier,
\* TopologyCheck, TimeSyncCheck, Disconnect.
C7_OrderAsSpecified ==
    [][\A d \in Devices :
          (pc[d] \in Steps /\ pc'[d] \in Steps /\ pc'[d] # pc[d]) =>
              StageAsSpecified(pc'[d]) - StageAsSpecified(pc[d]) \in {0, 1}]_vars

\* C7 amended: a pipeline starts with Connect and moves from a stage only to
\* the same or the next one in the order Connect, Backup, PlatformID, Version,
\* TopologyCheck, LicensingTier, TimeSyncCheck, Disconnect.
C7_OrderAsCoded ==
    [][\A d \in Devices :
          /\ (pc[d] \in Steps /\ pc'[d] \in Steps /\ pc'[d] # pc[d]) =>
                 StageAsCoded(pc'[d]) - StageAsCoded(pc[d]) \in {0, 1}
          /\ (pc[d] \notin Steps /\ pc'[d] \in Steps) => pc'[d] = "connect"
          /\ (pc[d] # "returned" /\ pc'[d] = "returned") => pc[d] = "disconnect"]_vars

\* A pipeline has run the topology check and is about to run the licensing check.
C7_Witness == \E d \in Devices : pc[d] = "npe" /\ vals[d].cdp # "unset" /\ vals[d].npe = "unset"

\* C8: on no session has a command gone out before connection.enable()
\* returned on that session.
C8_PrivilegeBeforeCommands == \A d \in Devices : ~ unpriv[d]

\* A pipeline has sent the commands of all its steps on an escalated session.
C8_Witness == \E d \in Devices : pc[d] = "returned" /\ enabled[d]

\* C9: when a missing inventory column is detected (KeyError), no session
\* has been opened to any device.
C9_MissingFieldBeforeSessions ==
    (\E d \in Devices : exc[d] = "KeyError") => \A e \in Devices : session[e] = "none"

\* C10: when result.txt is about to be written or has been written, every
\* task has returned or raised, none is running or waiting, the result of
\* every task that returned is in main's list, and the file holds that list.
C10_JoinBarrier ==
    (mainpc = "write" \/ result_txt # {}) =>
        /\ \A d \in Devices :
               /\ pc[d] \in {"returned", "raised"}
               /\ pc[d] = "returned" => \E i \in 1 .. Len(result) : result[i] = ret[d]
        /\ result_txt \in {{}, {result}}

\* result.txt has been written.
C10_Witness == result_txt # {} /\ mainpc = "done"

----------------------------------------------------------------------------
(* Properties of the step functions, under SpecUnit *)

\* The call of fn has been made.
Called(fn) == call.fn = fn /\ out.runs >= 1

\* The version text holds the license marker: 'k' or 'K' followed by '9'.
HasLicenseMarker(output) ==
    \E i \in 1 .. (Len(output) - 1) : output[i] \in {"k", "K"} /\ output[i + 1] = "9"

\* C11: a Check_NPE call that returns gives "PE" when the version text holds
\* the marker k9 in either letter case, and "NPE" when it does not.
C11_TierClassification ==
    (Called("Check_NPE") /\ out.exc = "none") =>
        out.value = IF HasLicenseMarker(call.output) THEN "PE" ELSE "NPE"

\* The neighbor text lacks 'Port ID', or has after it a line of fewer than
\* three words that is not the empty line.
Malformed(c) ==
    \/ ~ c.marker
    \/ \E i \in 1 .. Len(c.lines) :
           c.lines[i].flat # << >> /\ Len(c.lines[i].fields) < 3

\* C12: when every command of check_cdp is answered and the neighbor text is
\* malformed, no exception leaves check_cdp: the step returns a value to
\* process_target, which goes on.
C12_MalformedTextTolerated ==
    (Called("check_cdp") /\ call.failAt = 0 /\ Malformed(call)) => out.exc = "none"

\* The text has 'Port ID' and no neighbor line after it.
ZeroNeighborLines(c) == c.marker /\ \A i \in 1 .. Len(c.lines) : c.lines[i].flat = << >>

\* C13: parse_cdp_nei on a text with 'Port ID' followed by no neighbor line
\* returns the empty dict and raises nothing, and a second parse of a text
\* ends as the first one did.
C13_ZeroLinesEmptySet ==
    Called("parse_cdp_nei") =>
        /\ ZeroNeighborLines(call) => (out.exc = "none" /\ out.dict = {})
        /\ out.runs = 2 => (out.exc = out.before.err /\ out.dict = out.before.dict)

\* A text with the header and two empty lines has been parsed twice.
C13_Witness ==
    /\ Called("parse_cdp_nei") /\ out.runs = 2
    /\ ZeroNeighborLines(call) /\ Len(call.lines) = MaxLines
    /\ out.dict = {}

\* What the mapping rule gives for one line of n >= 3 fields.
LineKey(name, f) == << name, f[2] \o f[3] >>

LineValue(f) == << f[1], f[Len(f) - 1] \o f[Len(f)] >>

\* The lines of the call that have fields.
NeighborRows(c) == {i \in 1 .. Len(c.lines) : c.lines[i].fields # << >>}

\* The relations of the lines that no later line with the same key follows.
LastWins(name, c) ==
    { << LineKey(name, c.lines[i].fields), LineValue(c.lines[i].fields) >> :
        i \in { i \in NeighborRows(c) :
                  \A j \in NeighborRows(c) :
                      j > i => LineKey(name, c.lines[j].fields) # LineKey(name, c.lines[i].fields) } }

\* C14: a parse that returns holds at most one relation per key, and on a
\* text with the prompt marker its relations are those the mapping rule
\* gives for the lines, the later line winning where two have the same key.
C14_MappingRule ==
    (Called("parse_cdp_nei") /\ out.exc = "none") =>
        /\ \A p, q \in out.dict : p[1] = q[1] => p = q
        /\ call.prompt => out.dict = LastWins("R1", call)

\* Two lines with the same local port and different neighbors have been
\* parsed, the second one with spaces around its words.
C14_Witness ==
    /\ Called("parse_cdp_nei") /\ out.exc = "none" /\ call.prompt
    /\ Len(call.lines) = 2
    /\ \A i \in 1 .. 2 : Len(call.lines[i].fields) >= 3
    /\ call.lines[1].fields[1] = "R2" /\ call.lines[2].fields[1] = "R3"
    /\ out.dict = {<< << "R1", "Gig0/1" >>, << "R3", "Gig0/3" >> >>}

\* The commands of a call, connection.enable() left out.
Commands(issued) == SelectSeq(issued, LAMBDA o : o # "enable")

Count(seq, x) == Cardinality({i \in 1 .. Len(seq) : seq[i] = x})

\* a occurs in seq, and b only after it.
Precedes(seq, a, b) ==
    \A j \in 1 .. Len(seq) : seq[j] = b => \E i \in 1 .. (j - 1) : seq[i] = a

\* C15: in a check_cdp call the status query is the first command; 'cdp run'
\* is sent exactly when the status query was answered with 'no cdp run';
\* 'sho cdp neigh' is sent at most once, once when no call on the connection
\* fails, and only after the status query and, when the answer was
\* 'no cdp run', after 'cdp run'.
C15_TopologyCommandOrder ==
    Called("check_cdp") =>
        LET cmds == Commands(out.issued)
            answered == Len(cmds) >= 2 \/ (Len(cmds) = 1 /\ call.failAt = 0)
        IN /\ cmds # << >> => cmds[1] = "sho run | in no cdp run"
           /\ Count(cmds, "cdp run") = IF answered /\ call.disabled THEN 1 ELSE 0
           /\ Count(cmds, "sho cdp neigh") <= 1
           /\ call.failAt = 0 => Count(cmds, "sho cdp neigh") = 1
           /\ Precedes(cmds, "sho run | in no cdp run", "sho cdp neigh")
           /\ call.disabled => Precedes(cmds, "cdp run", "sho cdp neigh")

\* check_cdp has re-enabled discovery and then asked for the neighbors.
C15_Witness ==
    /\ Called("check_cdp") /\ call.disabled /\ call.failAt = 0 /\ out.exc = "none"
    /\ out.issued = << "enable", "sho run | in no cdp run", "cdp run", "sho cdp neigh" >>

\* C16: a check_cdp call that returns reports "CDP is on, N peers", N being
\* the number of relations parse_cdp_nei returned, 0 included: discovery is
\* on whenever the neighbor query was answered.
C16_ReportsPeerCount ==
    (Called("check_cdp") /\ out.exc = "none") =>
        out.value = "CDP is on, " \o ToString(Cardinality(out.dict)) \o " peers"

\* The role command of a device.
RoleCommand(type) ==
    CASE type = "server" -> << "ntp master" >>
      [] type = "client" -> << "ntp server 192.168.194.101" >>
      [] OTHER -> << >>

IsPrefix(s, t) == Len(s) <= Len(t) /\ s = SubSeq(t, 1, Len(s))

\* C17: the commands of a config_ntp call are a prefix of: timezone, the
\* role command of the device's ntp type, the wait, the status query, all
\* of them when no call fails; a call that returns reports "Clock in Sync"
\* when the status text holds 'Clock is synchronized' and
\* "Clock not in Sync" when it does not.
C17_TimeSyncOrder ==
    Called("config_ntp") =>
        LET order == << "clock timezone GMT 0" >> \o RoleCommand(call.type)
                     \o << "time.sleep", "sho ntp status" >>
        IN /\ IsPrefix(Commands(out.issued), order)
           /\ call.failAt = 0 => Commands(out.issued) = order
           /\ out.exc = "none" =>
                  out.value = IF call.status.hasPhrase THEN "Clock in Sync"
                              ELSE "Clock not in Sync"

\* A server has been configured and reported in sync from a status text
\* that holds more than the phrase.
C17_Witness ==
    /\ Called("config_ntp") /\ call.type = "server" /\ out.exc = "none"
    /\ call.status.hasPhrase /\ Len(call.status.flat) > 5
    /\ out.value = "Clock in Sync"
    /\ out.issued[Len(out.issued)] = "sho ntp status"

----------------------------------------------------------------------------
(* Properties of the backup directory and of the order of the results *)

\* os.mkdir of device d's backup directory has raised.
MkdirFailed(d) == pc[d] = "raised" /\ failedAt[d] = "mkdir"

\* The step in which create_backup of device d returns True.
BackupReturns(d) == pc[d] = "backup" /\ pc'[d] = "pid" /\ vals'[d].backup = "True"

\* C18: in every interleaving, two devices of the same hostname included,
\* the check-then-create of the backup directory never fails, and when
\* create_backup returns True the artifact of the hostname holds the
\* running configuration of that device.
C18_BackupDirSafe ==
    /\ [](\A d \in Devices : ~ MkdirFailed(d))
    /\ [][\A d \in Devices :
              BackupReturns(d) => << hostname(d), running_config(d) >> \in backups']_vars

\* The step in which main's list changes.
ResultChanges == result' # result

\* C19: the i-th entry of main's list is the summary record the task of the
\* i-th device returned, result.txt holds that list with one entry per
\* device, and the list changes only by main appending to it the value of
\* the next task in submission order.
C19_InventoryOrder ==
    /\ [](/\ \A i \in 1 .. Len(result) :
                /\ pc[i] \in {"returned", "killed"} => result[i] = ret[i]
                /\ result[i] = temp_str(i, vals[i])
          /\ result_txt # {} => (result_txt = {result} /\ Len(result) = fleet.rows))
    /\ [][ResultChanges =>
              /\ mainpc = "collect"
              /\ result' = Append(result, ret[Len(result) + 1])
              /\ pc' \in {pc, Terminated}]_vars

\* The third task has returned before the second one, and main's list
\* holds the record of the first.
C19_Witness ==
    /\ fleet.rows >= 3
    /\ Len(result) = 1 /\ result[1][1] = hostname(1)
    /\ pc[3] = "returned" /\ Running(2)

====
